---- MODULE Spec2Model ----
(***************************************************************************)
(* Credential lifecycle of the Doki backend: the Fernet token cipher and   *)
(* its storage encodings (app/core/encryption.py), the Google OAuth login  *)
(* and callback handlers (app/api/auth.py), the Supabase connection store  *)
(* (app/connectors/supabase.py) and bearer-token validation                *)
(* (app/core/jwt_validation.py, app/auth/dependencies.py).                 *)
(*                                                                         *)
(* Strings and byte strings are sequences of character codes 0..255, so    *)
(* that hex, base64 and the "\x" prefix are computed, not assumed.         *)
(***************************************************************************)
EXTENDS Integers, Sequences, FiniteSets, TLC

(***************************************************************************)
(* Bounds of the model.                                                    *)
(***************************************************************************)
\* longest plaintext secret, in characters
MaxPlainLen == 3
\* number of distinct Fernet keys the Secret Source may hold
NumKeys == 2
\* number of distinct IV/timestamp choices of one Fernet encryption
NumIvs == 1
\* number of browser sessions
NumSessions == 2
\* number of OAuth state tokens the flow may issue
MaxStates == 2
\* number of Supabase users
NumUsers == 1
\* number of rows the credentials table may hold
MaxRows == 2

\* the seconds the clock runs through
MaxTime == 3
NumRequests == 2
MaxFetches == 3

(***************************************************************************)
(* Results of calls that may raise.                                        *)
(***************************************************************************)
Ok(v) == [st |-> "ok", v |-> v, err |-> ""]

Err(e) == [st |-> "err", v |-> <<>>, err |-> e]

NoResult == [st |-> "none", v |-> <<>>, err |-> ""]

(***************************************************************************)
(* Character classes (ASCII codes).                                        *)
(***************************************************************************)
\* Py_ISSPACE: space, \t, \n, \v, \f, \r
IsSpace(c) == c \in {32, 9, 10, 11, 12, 13}

\* value of a hexadecimal digit, 16 for any other character
HexVal(c) ==
  IF c >= 48 /\ c <= 57 THEN c - 48
  ELSE IF c >= 97 /\ c <= 102 THEN c - 87
  ELSE IF c >= 65 /\ c <= 70 THEN c - 55
  ELSE 16

\* lower-case hexadecimal digit of a value 0..15
HexDigit(v) == IF v < 10 THEN 48 + v ELSE 87 + v

\* standard base64 alphabet: value of a character, 64 for any other character
B64Val(c) ==
  IF c >= 65 /\ c <= 90 THEN c - 65
  ELSE IF c >= 97 /\ c <= 122 THEN c - 71
  ELSE IF c >= 48 /\ c <= 57 THEN c + 4
  ELSE IF c = 43 THEN 62
  ELSE IF c = 47 THEN 63
  ELSE 64

\* character of a base64 value 0..63; the URL-safe alphabet ends in "-" and "_"
B64Char(v, urlsafe) ==
  IF v < 26 THEN 65 + v
  ELSE IF v < 52 THEN 71 + v
  ELSE IF v < 62 THEN v - 4
  ELSE IF v = 62 THEN (IF urlsafe THEN 45 ELSE 43)
  ELSE (IF urlsafe THEN 95 ELSE 47)

(***************************************************************************)
(* bytes.fromhex / bytes.hex                                               *)
(***************************************************************************)
RECURSIVE FromHexAt(_, _, _)
\* bytes.fromhex from position i on: white space is skipped before each pair
\* of digits, any other character or a lone digit raises ValueError
FromHexAt(s, i, out) ==
  IF i > Len(s) THEN Ok(out)
  ELSE IF IsSpace(s[i]) THEN FromHexAt(s, i + 1, out)
  ELSE IF HexVal(s[i]) = 16 THEN Err("ValueError")
  ELSE IF i + 1 > Len(s) THEN Err("ValueError")
  ELSE IF HexVal(s[i + 1]) = 16 THEN Err("ValueError")
  ELSE FromHexAt(s, i + 2, Append(out, 16 * HexVal(s[i]) + HexVal(s[i + 1])))

FromHex(s) == FromHexAt(s, 1, <<>>)

RECURSIVE HexEncode(_)
HexEncode(b) ==
  IF b = <<>> THEN <<>>
  ELSE <<HexDigit(b[1] \div 16), HexDigit(b[1] % 16)>> \o HexEncode(Tail(b))

(***************************************************************************)
(* base64.b64encode / b64decode / urlsafe_b64encode / urlsafe_b64decode    *)
(***************************************************************************)
RECURSIVE B64EncodeWith(_, _)
B64EncodeWith(b, urlsafe) ==
  IF b = <<>> THEN <<>>
  ELSE IF Len(b) = 1 THEN
    <<B64Char(b[1] \div 4, urlsafe), B64Char((b[1] % 4) * 16, urlsafe), 61, 61>>
  ELSE IF Len(b) = 2 THEN
    <<B64Char(b[1] \div 4, urlsafe),
      B64Char((b[1] % 4) * 16 + b[2] \div 16, urlsafe),
      B64Char((b[2] % 16) * 4, urlsafe), 61>>
  ELSE
    <<B64Char(b[1] \div 4, urlsafe),
      B64Char((b[1] % 4) * 16 + b[2] \div 16, urlsafe),
      B64Char((b[2] % 16) * 4 + b[3] \div 64, urlsafe),
      B64Char(b[3] % 64, urlsafe)>> \o B64EncodeWith(SubSeq(b, 4, Len(b)), urlsafe)

B64Encode(b) == B64EncodeWith(b, FALSE)

UrlsafeB64Encode(b) == B64EncodeWith(b, TRUE)

RECURSIVE A2bBase64(_, _, _, _, _, _)
\* binascii.a2b_base64 in its default, non-strict mode: characters outside the
\* alphabet are skipped, a completed pad sequence ends the input, and data
\* left in an unfinished quad raises binascii.Error
A2bBase64(s, i, quad, left, pads, out) ==
  IF i > Len(s) THEN (IF quad = 0 THEN Ok(out) ELSE Err("binascii.Error"))
  ELSE IF s[i] = 61 THEN
    IF quad >= 2 /\ quad + pads + 1 >= 4 THEN Ok(out)
    ELSE A2bBase64(s, i + 1, quad, left, IF quad >= 2 THEN pads + 1 ELSE pads, out)
  ELSE IF B64Val(s[i]) = 64 THEN A2bBase64(s, i + 1, quad, left, pads, out)
  ELSE IF quad = 0 THEN A2bBase64(s, i + 1, 1, B64Val(s[i]), 0, out)
  ELSE IF quad = 1 THEN
    A2bBase64(s, i + 1, 2, B64Val(s[i]) % 16, 0,
              Append(out, left * 4 + B64Val(s[i]) \div 16))
  ELSE IF quad = 2 THEN
    A2bBase64(s, i + 1, 3, B64Val(s[i]) % 4, 0,
              Append(out, left * 16 + B64Val(s[i]) \div 4))
  ELSE A2bBase64(s, i + 1, 0, 0, 0, Append(out, left * 64 + B64Val(s[i])))

B64Decode(s) == A2bBase64(s, 1, 0, 0, 0, <<>>)

\* "-" and "_" are translated to "+" and "/" before decoding
UrlsafeTranslate(s) ==
  [i \in 1..Len(s) |-> IF s[i] = 45 THEN 43 ELSE IF s[i] = 95 THEN 47 ELSE s[i]]

UrlsafeB64Decode(s) == B64Decode(UrlsafeTranslate(s))

(***************************************************************************)
(* Fernet (cryptography.fernet), as used by app/core/encryption.py.        *)
(* A token is the URL-safe base64 text of                                  *)
(*     version byte 0x80 | IV | ciphertext | authentication tag.           *)
(* The key stream and the tag are small stand-ins for AES-CBC and          *)
(* HMAC-SHA256. The tag is ideal: a byte string verifies under a key       *)
(* exactly when it is a token body that key can produce.                   *)
(***************************************************************************)
Keys == 1..NumKeys

Ivs == 1..NumIvs

RECURSIVE SeqsUpTo(_)
\* every string over "A" and "T" of at most n characters
SeqsUpTo(n) ==
  IF n = 0 THEN {<<>>}
  ELSE SeqsUpTo(n - 1) \cup
       {Append(s, c) : s \in {t \in SeqsUpTo(n - 1) : Len(t) = n - 1}, c \in {65, 84}}

\* the plaintext secrets: access tokens, refresh tokens, service keys
Plaintexts == SeqsUpTo(MaxPlainLen)

RECURSIVE SumSeq(_)
SumSeq(s) == IF s = <<>> THEN 0 ELSE s[1] + SumSeq(Tail(s))

FernetTag(key, iv, pt) ==
  (101 * key + 59 * iv + 7 * SumSeq(pt) + 29 * Len(pt) + 13) % 256

\* the binary token body
FernetRaw(key, iv, pt) ==
  <<128, (83 * iv + 7) % 256>>
    \o [i \in 1..Len(pt) |-> (pt[i] + 37 * key + 11 * iv + 5 * i) % 256]
    \o <<FernetTag(key, iv, pt)>>

\* Fernet.encrypt
FernetEncrypt(key, iv, pt) == UrlsafeB64Encode(FernetRaw(key, iv, pt))

\* Fernet.decrypt that checks the version byte but not the tag
FernetDecryptUnverified(key, token) ==
  LET d == UrlsafeB64Decode(token) IN
  IF d.st # "ok" THEN Err("InvalidToken")
  ELSE IF d.v = <<>> THEN Err("InvalidToken")
  ELSE IF d.v[1] # 128 THEN Err("InvalidToken")
  ELSE Ok(SubSeq(d.v, 3, Len(d.v) - 1))

\* Fernet.decrypt: base64-decode, check the version byte, verify the tag,
\* decrypt; every failure is InvalidToken
FernetDecrypt(key, token) ==
  LET d == UrlsafeB64Decode(token) IN
  IF d.st # "ok" THEN Err("InvalidToken")
  ELSE IF d.v = <<>> THEN Err("InvalidToken")
  ELSE IF d.v[1] # 128 THEN Err("InvalidToken")
  ELSE IF \E iv \in Ivs, pt \in Plaintexts : FernetRaw(key, iv, pt) = d.v
    THEN Ok(CHOOSE pt \in Plaintexts : \E iv \in Ivs : FernetRaw(key, iv, pt) = d.v)
  ELSE Err("InvalidToken")

(***************************************************************************)
(* app/core/encryption.py                                                  *)
(***************************************************************************)
\* what the Secret Source yields for the encryption key:
\* -1  ENCRYPTION_KEY_NAME is not set, 0  the secret lookup fails, k  key k
SecretStates == {-1, 0} \cup Keys

\* _get_cipher under lru_cache(maxsize=1): the cached key (0: none cached) is
\* returned when present, else the key is fetched; 0 stands for a raise,
\* which lru_cache does not cache
GetCipher(cache, secret) ==
  IF cache # 0 THEN cache
  ELSE IF secret >= 1 THEN secret
  ELSE 0

GetCipherError(secret) ==
  IF secret = -1 THEN "RuntimeError" ELSE "SecretLookupError"

\* a result that also tells whether the call went through _get_cipher
Keyed(r, k) == [st |-> r.st, v |-> r.v, err |-> r.err, keyed |-> k]

\* encrypt_token without the empty-plaintext sentinel
EncryptTokenNoSentinel(cache, secret, iv, plaintext) ==
  IF GetCipher(cache, secret) = 0 THEN Keyed(Err(GetCipherError(secret)), TRUE)
  ELSE Keyed(Ok(FernetEncrypt(GetCipher(cache, secret), iv, plaintext)), TRUE)

\* encrypt_token
EncryptToken(cache, secret, iv, plaintext) ==
  IF plaintext = <<>> THEN Keyed(Ok(<<>>), FALSE)
  ELSE IF GetCipher(cache, secret) = 0 THEN Keyed(Err(GetCipherError(secret)), TRUE)
  ELSE Keyed(Ok(FernetEncrypt(GetCipher(cache, secret), iv, plaintext)), TRUE)

\* decrypt_token
DecryptToken(cache, secret, encrypted) ==
  IF encrypted = <<>> THEN Keyed(Ok(<<>>), FALSE)
  ELSE IF GetCipher(cache, secret) = 0 THEN Keyed(Err(GetCipherError(secret)), TRUE)
  ELSE Keyed(FernetDecrypt(GetCipher(cache, secret), encrypted), TRUE)

\* a storage encoding that hands the secret over as it is
EncryptTokenForStoragePlain(cache, secret, iv, plaintext) ==
  Keyed(Ok(plaintext), FALSE)

\* encrypt_token_for_storage: the token bytes are ASCII, so decoding them as
\* UTF-8 keeps every character code
EncryptTokenForStorage(cache, secret, iv, plaintext) ==
  IF plaintext = <<>> THEN Keyed(Ok(<<>>), FALSE)
  ELSE EncryptToken(cache, secret, iv, plaintext)

\* the cache after a call that went through _get_cipher (keyed) or did not
CacheAfter(cache, secret, keyed) ==
  IF keyed THEN GetCipher(cache, secret) ELSE cache

\* the number of get_secret_value calls after a call: _get_cipher runs its
\* body when nothing is cached, and reaches get_secret_value unless
\* ENCRYPTION_KEY_NAME is not set
FetchesAfter(n, cache, secret, keyed) ==
  IF keyed /\ cache = 0 /\ secret # -1 THEN n + 1 ELSE n

\* str.startswith('\\x')
HasHexPrefix(s) == Len(s) >= 2 /\ s[1] = 92 /\ s[2] = 120

\* removal of "\n", "\r", " " and "\t"
StripWhitespace(s) == SelectSeq(s, LAMBDA c : c \notin {10, 13, 32, 9})

\* '=' appended up to a multiple of four characters
PadBase64(s) ==
  s \o [i \in 1..((4 - (Len(s) % 4)) % 4) |-> 61]

\* the last resort of decrypt_token_from_storage
LastResortBytes(data) == B64Decode(PadBase64(StripWhitespace(data)))

\* the bytes decrypt_token_from_storage hands to decrypt_token for a str
StorageBytes(data) ==
  LET body == IF HasHexPrefix(data) THEN SubSeq(data, 3, Len(data)) ELSE data IN
  IF FromHex(body).st = "ok" THEN FromHex(body)
  ELSE IF FromHex(body).st = "ok" /\ B64Decode(FromHex(body).v).st = "ok"
    THEN B64Decode(FromHex(body).v)
  ELSE LastResortBytes(body)

\* decrypt_token_from_storage; isStr tells a str argument from a bytes one
DecryptTokenFromStorage(cache, secret, isStr, data) ==
  IF data = <<>> THEN Keyed(Ok(<<>>), FALSE)
  ELSE IF ~isStr THEN DecryptToken(cache, secret, data)
  ELSE IF StorageBytes(data).st # "ok" THEN Keyed(Err(StorageBytes(data).err), FALSE)
  ELSE DecryptToken(cache, secret, StorageBytes(data).v)

(***************************************************************************)
(* State.                                                                  *)
(***************************************************************************)
VARIABLES
  \* the process: the cached Fernet key (0: none) and what the Secret Source
  \* would yield for ENCRYPTION_KEY_NAME
  cipherCache, secretKey,
  \* a cipher call sequence: its position, the plaintext given to the
  \* encoder, the encoder's result, the byte changed in the token (pos 0:
  \* none), the value read back from the credentials column, the decoder's
  \* result
  pc, plaintext, encrypted, tamper, stored, decrypted,
  \* the calls of get_secret_value that the cipher calls of this sequence
  \* have made through _get_cipher
  keyFetches,
  \* the environment of the OAuth handlers: "ok", or which setting is missing
  googleConfig,
  \* request.session["oauth_state"] of each browser session (0: no such key)
  session,
  \* the session each state token was issued to (0: not issued yet)
  issuedTo,
  \* state tokens that a callback presented while they were the pending
  \* state of its session, and those whose code exchange succeeded
  processed, exchanged,
  \* the rows of the credentials table, oldest first
  credentials,
  \* the last request handled and its response
  lastResp,
  \* the callback requests that are being handled side by side: how far each
  \* has come, the oauth_state it read from its session cookie, and its
  \* response
  inflight,
  \* bearer authentication: what SUPABASE_JWT_SECRET_NAME holds (0: unset),
  \* ENVIRONMENT, the clock in seconds, and the last authenticated request
  \* with its outcome
  jwtSecret, environment, now, lastAuth

cipherVars == <<pc, plaintext, encrypted, tamper, stored, decrypted, keyFetches>>

oauthVars ==
  <<googleConfig, session, issuedTo, processed, exchanged, credentials, lastResp,
    inflight>>

jwtVars == <<jwtSecret, environment, now, lastAuth>>

vars ==
  <<cipherCache, secretKey, pc, plaintext, encrypted, tamper, stored, decrypted,
    keyFetches, googleConfig, session, issuedTo, processed, exchanged, credentials, lastResp,
    inflight, jwtSecret, environment, now, lastAuth>>

NoKeyed == Keyed(NoResult, FALSE)

NoTamper == [pos |-> 0, byte |-> 0]

NotStored == [shape |-> "none", isStr |-> TRUE, data |-> <<>>]

\* the token with the byte at t.pos replaced by t.byte
Tampered(token, t) ==
  IF t.pos = 0 THEN token ELSE [token EXCEPT ![t.pos] = t.byte]

\* s with the character c inserted after position n
InsertAt(s, n, c) == SubSeq(s, 1, n) \o <<c>> \o SubSeq(s, n + 1, Len(s))

\* how a written storage string comes back from the credentials column
StorageShapes == {"canonical", "hex", "xhex", "b64ws", "xhexb64", "bytes"}

\* the values a storage string s can come back as, in the given shape:
\*   canonical  the string as written (a text column)
\*   hex, xhex  the hex rendering of a bytea column, without and with "\x"
\*   b64ws      rows written base64-encoded once more, with a line break
\*   xhexb64    such rows read back from a bytea column
\*   bytes      a driver that hands over the bytes themselves
ReadBackValues(s, shape) ==
  IF shape = "canonical" THEN {s}
  ELSE IF shape = "hex" THEN {HexEncode(s)}
  ELSE IF shape = "xhex" THEN {<<92, 120>> \o HexEncode(s)}
  ELSE IF shape = "b64ws" THEN
    {InsertAt(B64Encode(s), n, 10) : n \in 0..Len(B64Encode(s))}
  ELSE IF shape = "xhexb64" THEN {<<92, 120>> \o HexEncode(B64Encode(s))}
  ELSE {s}

(***************************************************************************)
(* Bearer authentication: validate_jwt_token and extract_user_from_jwt of  *)
(* app/core/jwt_validation.py behind get_current_user of                   *)
(* app/auth/dependencies.py.  A token is described by what jwt.decode      *)
(* looks at: whether it has the three segments of a JWS, the alg of its    *)
(* header, the key it was signed with, and the sub, aud and exp claims.    *)
(***************************************************************************)
JwtSecretStates == {0} \cup Keys

\* the bearer tokens a client may send
BearerTokens ==
  [form : {"jws"}, alg : {"HS256", "none"}, key : Keys,
   sub : {"absent", "u1"}, aud : {"authenticated", "other", "absent"},
   has_exp : {TRUE}, exp : 0..(MaxTime + 1)]
  \cup
  [form : {"jws"}, alg : {"HS256"}, key : Keys,
   sub : {"absent", "u1"}, aud : {"authenticated", "other", "absent"},
   has_exp : {FALSE}, exp : {0}]
  \cup
  [form : {"malformed"}, alg : {"none"}, key : {1}, sub : {"absent"},
   aud : {"absent"}, has_exp : {FALSE}, exp : {0}]

\* what the bearer scheme hands to get_current_user: None without a Bearer
\* Authorization header, else the token
NoCred == [present |-> FALSE, token |-> CHOOSE t \in BearerTokens : t.form = "malformed"]

Creds == {NoCred} \cup {[present |-> TRUE, token |-> t] : t \in BearerTokens}

\* the Authorization header of a request: none, one of another scheme, the
\* word Bearer without a token, or Bearer and a token
Headers == {"none", "basic", "bearer_empty", "bearer"}

\* a bearer scheme that hands no token on
BearerSchemeDropsToken(header, token) == NoCred

\* bearer_scheme = HTTPBearer(auto_error=False): the credentials of a Bearer
\* header that carries a token, None for every other request
BearerScheme(header, token) ==
  IF header = "bearer" THEN [present |-> TRUE, token |-> token] ELSE NoCred

\* the exceptions of jwt.decode, all of them PyJWTError
PyJWTErrors ==
  {"DecodeError", "InvalidAlgorithmError", "InvalidSignatureError",
   "ExpiredSignatureError", "MissingRequiredClaimError", "InvalidAudienceError"}

\* str(e) of these exceptions
JwtMessage(exc) ==
  CASE exc = "DecodeError" -> "Not enough segments"
    [] exc = "InvalidAlgorithmError" -> "The specified alg value is not allowed"
    [] exc = "InvalidSignatureError" -> "Signature verification failed"
    [] exc = "ExpiredSignatureError" -> "Signature has expired"
    [] exc = "MissingRequiredClaimError" -> "Token is missing the \"aud\" claim"
    [] exc = "InvalidAudienceError" -> "Invalid audience"
    [] OTHER -> exc

\* an expiry check with a minute of grace
IsExpiredWithGrace(exp, t) == exp + 60 <= t

\* the expiry check of jwt.decode, called without leeway
IsExpired(exp, t) == exp <= t

\* jwt.decode(token, key, audience=..., algorithms=...): the segments, the
\* algorithm, the signature, then exp and aud
JwtDecode(token, key, audience, algorithms, t) ==
  IF token.form # "jws" THEN Err("DecodeError")
  ELSE IF token.alg \notin algorithms THEN Err("InvalidAlgorithmError")
  ELSE IF token.key # key THEN Err("InvalidSignatureError")
  ELSE IF token.has_exp /\ IsExpired(token.exp, t) THEN Err("ExpiredSignatureError")
  ELSE IF token.aud = "absent" THEN Err("MissingRequiredClaimError")
  ELSE IF token.aud # audience THEN Err("InvalidAudienceError")
  ELSE Ok([sub |-> token.sub, aud |-> token.aud])

\* validate_jwt_token with its default audience and algorithms
ValidateJwtToken(secret, token, t) ==
  IF secret = 0 THEN Err("RuntimeError")
  ELSE JwtDecode(token, secret, "authenticated", {"HS256"}, t)

\* extract_user_from_jwt: payload.get("sub") and the default role
ExtractUserFromJwt(payload) ==
  [user_id |-> payload.sub, role |-> "authenticated"]

NoUser == [user_id |-> "", role |-> ""]

WwwAuthenticate == "Bearer realm=\"auth_required\""

InvalidCredentialsDetail == "Invalid authentication credentials: "

\* the response of a route behind get_current_user: status_code, the fixed
\* part of detail, str(e) appended to it, the exception, the
\* WWW-Authenticate header and the user handed to the route
AuthResp(status, detail, cause, exc, header, user) ==
  [status |-> status, detail |-> detail, cause |-> cause, exc |-> exc,
   header |-> header, user |-> user]

\* the values ENVIRONMENT may hold in a deployment ("unset": not in the
\* environment)
Environments == {"production", "development", "staging", "unset"}

\* os.getenv("ENVIRONMENT", "development")
GetEnvironment(env) == IF env = "unset" THEN "development" ELSE env

\* a bearer check that answers every failure with one message
GetCurrentUserGeneric(cred, env, secret, t) ==
  IF ~cred.present THEN
    IF GetEnvironment(env) = "production"
      THEN AuthResp(401, "Bearer authentication required", "", "", WwwAuthenticate, NoUser)
    ELSE AuthResp(200, "", "", "",  "",
                  [user_id |-> "00000000-0000-0000-0000-000000000000",
                   role |-> "authenticated"])
  ELSE
    LET r == ValidateJwtToken(secret, cred.token, t) IN
    IF r.st = "ok" THEN AuthResp(200, "", "", "", "", ExtractUserFromJwt(r.v))
    ELSE IF r.err \in PyJWTErrors
      THEN AuthResp(401, InvalidCredentialsDetail, "", r.err, WwwAuthenticate, NoUser)
    ELSE AuthResp(500, "Internal Server Error", "", r.err, "", NoUser)

\* get_current_user
GetCurrentUser(cred, env, secret, t) ==
  IF ~cred.present THEN
    IF GetEnvironment(env) = "production"
      THEN AuthResp(401, "Bearer authentication required", "", "", WwwAuthenticate, NoUser)
    ELSE AuthResp(200, "", "", "",  "",
                  [user_id |-> "00000000-0000-0000-0000-000000000000",
                   role |-> "authenticated"])
  ELSE
    LET r == ValidateJwtToken(secret, cred.token, t) IN
    IF r.st = "ok" THEN AuthResp(200, "", "", "", "", ExtractUserFromJwt(r.v))
    ELSE IF r.err \in PyJWTErrors
      THEN AuthResp(401, InvalidCredentialsDetail, JwtMessage(r.err), r.err,
                    WwwAuthenticate, NoUser)
    ELSE AuthResp(500, "Internal Server Error", "", r.err, "", NoUser)

NoAuth ==
  [header |-> "none", sent |-> NoCred.token, cred |-> NoCred, at |-> 0,
   resp |-> AuthResp(0, "", "", "", "", NoUser)]

\* the bearer part at rest, for the specifications that do not use it
JwtQuiet ==
  /\ jwtSecret = 0
  /\ environment = "development"
  /\ now = 1
  /\ lastAuth = NoAuth

(***************************************************************************)
(* The OAuth handlers of app/api/auth.py and the connection store of       *)
(* app/connectors/supabase.py.                                             *)
(***************************************************************************)
Sessions == 1..NumSessions

States == 1..MaxStates

Users == 1..NumUsers

\* the scopes the login requests
SCOPES ==
  {"openid", "userinfo.email", "userinfo.profile", "drive.readonly",
   "spreadsheets.readonly"}

\* a nullable text column
Null == [null |-> TRUE, s |-> <<>>]

Text(s) == [null |-> FALSE, s |-> s]

\* the token responses of the provider: the access token "AT", with the
\* refresh token "T" on a first consent and without it afterwards, with
\* all requested scopes or fewer, with or without an expiry, and with no
\* ID token when openid was not granted
ProviderTokens ==
  { [access |-> <<65, 84>>, refresh |-> <<84>>, id_token |-> TRUE,
     expiry |-> "iso", granted |-> SCOPES],
    [access |-> <<65, 84>>, refresh |-> <<>>, id_token |-> TRUE,
     expiry |-> "iso", granted |-> {"openid", "spreadsheets.readonly"}],
    [access |-> <<65, 84>>, refresh |-> <<>>, id_token |-> TRUE,
     expiry |-> "null", granted |-> SCOPES],
    [access |-> <<65, 84>>, refresh |-> <<84>>, id_token |-> FALSE,
     expiry |-> "iso", granted |-> {"spreadsheets.readonly"}] }

\* the state a login would issue next (0: the bound is reached)
NextState ==
  IF \E k \in States : issuedTo[k] = 0
  THEN CHOOSE k \in States : issuedTo[k] = 0 /\ \A j \in 1..(k - 1) : issuedTo[j] # 0
  ELSE 0

NoResp ==
  [op |-> "none", sid |-> 0, rstate |-> 0, status |-> 0, detail |-> "",
   cause |-> "", exchange |-> "none", pending |-> 0, replay |-> FALSE,
   replayExchanged |-> FALSE, inserted |-> FALSE, access |-> <<>>,
   refresh |-> <<>>, granted |-> {}, insertFailed |-> FALSE, row |-> 0,
   decrypt |-> "none", req |-> 0, probe |-> "none"]

\* the callback requests handled side by side
Requests == 1..NumRequests

\* a request that has not arrived
NoRequest == [pc |-> "idle", stored_state |-> 0, resp |-> NoResp]

NoneInFlight == [q \in Requests |-> NoRequest]

\* an HTTP response: status_code and detail, with str(e) of a caught
\* exception kept apart from the text it is appended to
Resp(base, status, detail, cause) ==
  [base EXCEPT !.status = status, !.detail = detail, !.cause = cause]

ExchangeFailedDetail == "Failed to exchange code for tokens: "

MissingStateDetail == "Missing OAuth state. Please restart the login flow."

OAuthInit ==
  /\ googleConfig \in {"ok", "no_redirect", "no_client"}
  /\ session = [s \in Sessions |-> 0]
  /\ issuedTo = [k \in States |-> 0]
  /\ processed = {}
  /\ exchanged = {}
  /\ credentials = <<>>
  /\ lastResp = NoResp
  /\ inflight = NoneInFlight

\* the OAuth part at rest, for the specifications that do not use it
OAuthQuiet ==
  /\ googleConfig = "ok"
  /\ session = [s \in Sessions |-> 0]
  /\ issuedTo = [k \in States |-> 0]
  /\ processed = {}
  /\ exchanged = {}
  /\ credentials = <<>>
  /\ lastResp = NoResp
  /\ inflight = NoneInFlight

\* the end of a request: its response and the state it leaves
Reply(r, newSession, newIssued, newProcessed, newExchanged, newCreds, newCache) ==
  /\ lastResp' = r
  /\ session' = newSession
  /\ issuedTo' = newIssued
  /\ processed' = newProcessed
  /\ exchanged' = newExchanged
  /\ credentials' = newCreds
  /\ cipherCache' = newCache
  /\ inflight' = IF r.req = 0 THEN inflight
                 ELSE [inflight EXCEPT ![r.req] = [@ EXCEPT !.pc = "done", !.resp = r]]
  /\ UNCHANGED <<googleConfig, secretKey>>
  /\ UNCHANGED <<cipherVars, jwtVars>>

\* a request that changes nothing
Refuse(r) == Reply(r, session, issuedTo, processed, exchanged, credentials, cipherCache)

\* a pending state kept in one place for the whole process
SessionAfterLoginGlobal(s, state) == [t \in Sessions |-> state]

\* request.session["oauth_state"] = state: the caller's own session cookie
SessionAfterLogin(s, state) == [session EXCEPT ![s] = state]

\* a login that leaves a state already pending in the session in place
GoogleLoginKeepsPending(s) ==
  LET base == [NoResp EXCEPT !.op = "login", !.sid = s, !.pending = session[s]] IN
  IF googleConfig = "no_client"
    THEN Refuse(Resp(base, 500, "Internal Server Error", "RuntimeError"))
  ELSE IF googleConfig = "no_redirect"
    THEN Refuse(Resp(base, 500, "GOOGLE_REDIRECT_URI is not configured", ""))
  ELSE
    /\ NextState # 0
    /\ Reply(Resp([base EXCEPT !.rstate = NextState], 302, "", ""),
             IF session[s] # 0 THEN session ELSE SessionAfterLogin(s, NextState),
             [issuedTo EXCEPT ![NextState] = s],
             processed, exchanged, credentials, cipherCache)

\* google_login
GoogleLogin(s) ==
  LET base == [NoResp EXCEPT !.op = "login", !.sid = s, !.pending = session[s]] IN
  IF googleConfig = "no_client"
    THEN Refuse(Resp(base, 500, "Internal Server Error", "RuntimeError"))
  ELSE IF googleConfig = "no_redirect"
    THEN Refuse(Resp(base, 500, "GOOGLE_REDIRECT_URI is not configured", ""))
  ELSE
    /\ NextState # 0
    /\ Reply(Resp([base EXCEPT !.rstate = NextState], 302, "", ""),
             SessionAfterLogin(s, NextState),
             [issuedTo EXCEPT ![NextState] = s],
             processed, exchanged, credentials, cipherCache)

\* a row that records the scopes the login asked for
GoogleRowRequestedScopes(user, encAccess, encRefresh, tok) ==
  [user_id |-> user, provider |-> "google",
   access_token_encrypted |-> Text(encAccess),
   refresh_token_encrypted |-> encRefresh,
   expires_at |-> tok.expiry, scopes |-> SCOPES, project_url |-> ""]

\* the row google_callback builds
GoogleRow(user, encAccess, encRefresh, tok) ==
  [user_id |-> user, provider |-> "google",
   access_token_encrypted |-> Text(encAccess),
   refresh_token_encrypted |-> encRefresh,
   expires_at |-> tok.expiry, scopes |-> tok.granted, project_url |-> ""]

\* a store that replaces the row the user already has for the provider
UpsertRow(row) ==
  IF \E i \in 1..Len(credentials) :
       credentials[i].user_id = row.user_id /\ credentials[i].provider = row.provider
  THEN [i \in 1..Len(credentials) |->
          IF credentials[i].user_id = row.user_id
               /\ credentials[i].provider = row.provider
          THEN row ELSE credentials[i]]
  ELSE Append(credentials, row)

\* supabase.table("credentials").insert(...).execute(): the table after it
InsertRow(row) ==
  Append(credentials, row)

\* an insert whose failure is raised to the caller
StoreGoogleRowSurfaced(base, sess, proc, exch, cache, row) ==
  \E ins \in {"ok", "raise"} :
    IF ins = "ok"
    THEN /\ Len(credentials) < MaxRows
         /\ Reply(Resp([base EXCEPT !.inserted = TRUE], 200, "authenticated", ""),
                  sess, issuedTo, proc, exch, InsertRow(row), cache)
    ELSE Reply(Resp([base EXCEPT !.insertFailed = TRUE], 500,
                    "Failed to store Google credentials: ", "APIError"),
               sess, issuedTo, proc, exch, credentials, cache)

\* google_callback from the insert on: a failed insert is printed and the
\* response is the same
StoreGoogleRow(base, sess, proc, exch, cache, row) ==
  \E ins \in {"ok", "raise"} :
    IF ins = "ok"
    THEN /\ Len(credentials) < MaxRows
         /\ Reply(Resp([base EXCEPT !.inserted = TRUE], 200, "authenticated", ""),
                  sess, issuedTo, proc, exch, InsertRow(row), cache)
    ELSE Reply(Resp([base EXCEPT !.insertFailed = TRUE], 200, "authenticated", ""),
               sess, issuedTo, proc, exch, credentials, cache)

\* google_callback after the Supabase sign-in: the tokens are encrypted.
\* encrypt_token_for_storage is called outside any try: what it raises is
\* answered by the server's error middleware, outside SessionMiddleware, so
\* no cookie is set and the browser keeps the session it sent
EncryptAndStore(base, sess, proc, exch, tok, user) ==
  \E iv1 \in Ivs :
    LET encA == EncryptTokenForStorage(cipherCache, secretKey, iv1, tok.access)
        cache1 == CacheAfter(cipherCache, secretKey, encA.keyed)
        b == [base EXCEPT !.access = tok.access, !.refresh = tok.refresh,
                          !.granted = tok.granted]
    IN
    IF encA.st # "ok"
      THEN Reply(Resp(b, 500, "Internal Server Error", encA.err),
                 session, issuedTo, proc, exch, credentials, cache1)
    ELSE IF tok.refresh = <<>>
      THEN StoreGoogleRow(b, sess, proc, exch, cache1,
                          GoogleRow(user, encA.v, Null, tok))
    ELSE
      \E iv2 \in Ivs :
        LET encR == EncryptTokenForStorage(cache1, secretKey, iv2, tok.refresh)
            cache2 == CacheAfter(cache1, secretKey, encR.keyed)
        IN
        IF encR.st # "ok"
          THEN Reply(Resp(b, 500, "Internal Server Error", encR.err),
                     session, issuedTo, proc, exch, credentials, cache2)
        ELSE StoreGoogleRow(b, sess, proc, exch, cache2,
                            GoogleRow(user, encA.v, Text(encR.v), tok))

\* google_callback after a successful exchange, the state already popped
\* from request.session; sess is the session the response cookie carries
\* when the handler answers itself (a return or an HTTPException), while an
\* exception of get_supabase_client, raised outside the try, is answered
\* without a session cookie and leaves the browser's session as it was
AfterExchange(base, sess, proc, exch, tok) ==
  IF ~tok.id_token
    THEN Reply(Resp(base, 500,
                    "ID token not found in OAuth response. Ensure 'openid' scope is requested.",
                    ""),
               sess, issuedTo, proc, exch, credentials, cipherCache)
  ELSE
    \E signin \in {"ok", "client_error", "raise", "no_session"} :
      IF signin = "client_error"
        THEN Reply(Resp(base, 500, "Internal Server Error", "RuntimeError"),
                   session, issuedTo, proc, exch, credentials, cipherCache)
      ELSE IF signin = "raise"
        THEN Reply(Resp(base, 500, "Failed to authenticate with Supabase: ", "AuthApiError"),
                   sess, issuedTo, proc, exch, credentials, cipherCache)
      ELSE IF signin = "no_session"
        THEN Reply(Resp(base, 500,
                        "Supabase authentication failed: No user or session returned", ""),
                   sess, issuedTo, proc, exch, credentials, cipherCache)
      ELSE \E user \in Users : EncryptAndStore(base, sess, proc, exch, tok, user)

\* a state check that lets every returned state through
StateMatchesAny(stored_state, rs) == TRUE

\* the state check of the flow rebuilt with state=stored_state: the state
\* parameter of the callback URL has to equal the stored one
StateMatches(stored_state, rs) == rs = stored_state

\* a session that loses its state when the exchange fails
SessionClearedOnFailure(s, stored_state) == [session EXCEPT ![s] = 0]

\* the session after the except clause around flow.fetch_token, which raises
\* and does not touch request.session: the cookie of the 400 response
\* carries the session as the request read it
SessionAfterFailedExchange(s, stored_state) == [session EXCEPT ![s] = stored_state]

\* a pop that clears a pending state shared by every session
SessionsClearedAfterExchange(s) == [t \in Sessions |-> 0]

\* the session after session.pop("oauth_state") behind a successful exchange
SessionAfterExchange(s) == [session EXCEPT ![s] = 0]

\* flow.fetch_token: the callback URL is parsed (state first, then an error
\* parameter, then the code) and only then is the code sent to the provider;
\* whatever it raises is answered by the one except clause of
\* google_callback
FetchToken(base, s, stored_state, rs) ==
  IF ~StateMatches(stored_state, rs)
    THEN Reply(Resp(base, 400, ExchangeFailedDetail, "mismatching_state"),
               [session EXCEPT ![s] = stored_state], issuedTo, processed,
               exchanged, credentials, cipherCache)
  ELSE
    \E url \in {"code", "error", "no_code"} :
      IF url = "error"
        THEN Reply(Resp(base, 400, ExchangeFailedDetail, "access_denied"),
                   SessionAfterFailedExchange(s, stored_state), issuedTo, processed \cup {rs},
                   exchanged, credentials, cipherCache)
      ELSE IF url = "no_code"
        THEN Reply(Resp(base, 400, ExchangeFailedDetail, "missing_code"),
                   SessionAfterFailedExchange(s, stored_state), issuedTo, processed \cup {rs},
                   exchanged, credentials, cipherCache)
      ELSE
        \E ex \in {"ok", "invalid_grant", "transport_error"} :
          IF ex # "ok"
            THEN Reply(Resp([base EXCEPT !.exchange = "failed"], 400,
                            ExchangeFailedDetail, ex),
                       SessionAfterFailedExchange(s, stored_state), issuedTo,
                       processed \cup {rs}, exchanged, credentials, cipherCache)
          ELSE
            \E tok \in ProviderTokens :
              AfterExchange([base EXCEPT !.exchange = "ok"],
                            SessionAfterExchange(s),
                            processed \cup {rs}, exchanged \cup {rs}, tok)

\* google_callback from get_google_oauth_config on, stored_state being what
\* the request read from its session
CallbackFrom(base, s, stored_state, rs) ==
  IF googleConfig = "no_client"
    THEN Refuse(Resp(base, 500, "Internal Server Error", "RuntimeError"))
  ELSE IF googleConfig = "no_redirect"
    THEN Reply(Resp(base, 500, "GOOGLE_REDIRECT_URI is not configured", ""),
               [session EXCEPT ![s] = stored_state], issuedTo, processed,
               exchanged, credentials, cipherCache)
  ELSE FetchToken(base, s, stored_state, rs)

\* google_callback; rs is the state parameter of the callback URL (0: none)
GoogleCallback(s) ==
  \E rs \in 0..MaxStates :
    LET base == [NoResp EXCEPT !.op = "callback", !.sid = s, !.rstate = rs,
                               !.pending = session[s],
                               !.replay = rs \in processed,
                               !.replayExchanged = rs \in exchanged] IN
    IF session[s] = 0
      THEN Refuse(Resp(base, 400, MissingStateDetail, ""))
    ELSE CallbackFrom(base, s, session[s], rs)

\* the connectivity probe of store_user_supabase_connection: create_client
\* refuses an empty key
ProbeOutcomes(service_role_key) ==
  IF service_role_key = <<>> THEN {"error"}
  ELSE {"ok", "relation_missing", "error"}

\* a probe that lets every outcome through
ProbePassesAlways(probe) == TRUE

\* the probe passes when the query succeeded or failed only with
\* "relation ... does not exist"; every other failure is raised again
ProbePasses(probe) == probe \in {"ok", "relation_missing"}

\* store_user_supabase_connection from the probe on
ProbeAndInsert(base0, service, row, cache) ==
  LET failed == "Failed to connect Supabase: " IN
  \E probe \in ProbeOutcomes(service) :
    LET base == [base0 EXCEPT !.probe = probe] IN
    IF ~ProbePasses(probe)
      THEN Reply(Resp(base, 500, failed, "Failed to connect to Supabase project: "),
                 session, issuedTo, processed, exchanged, credentials, cache)
    ELSE
      \E ins \in {"ok", "raise", "no_data"} :
        IF ins = "ok"
          THEN /\ Len(credentials) < MaxRows
               /\ Reply(Resp([base EXCEPT !.inserted = TRUE], 200,
                             "Supabase project connected successfully", ""),
                        session, issuedTo, processed, exchanged,
                        InsertRow(row), cache)
        ELSE IF ins = "raise"
          THEN Reply(Resp(base, 500, failed, "APIError"),
                     session, issuedTo, processed, exchanged, credentials, cache)
        ELSE Reply(Resp(base, 500, failed, "Failed to store Supabase connection"),
                   session, issuedTo, processed, exchanged, credentials, cache)

\* the row store_user_supabase_connection builds
SupabaseRow(user, encService, encAnon) ==
  [user_id |-> user, provider |-> "supabase",
   access_token_encrypted |-> Text(encService),
   refresh_token_encrypted |-> encAnon,
   expires_at |-> "null", scopes |-> {}, project_url |-> "url"]

\* store_user_supabase_connection behind POST /connectors/supabase/connect,
\* which answers every exception with 500
ConnectSupabase(user) ==
  \E service \in {<<>>, <<65>>}, anon \in {<<>>, <<84>>} :
    LET base == [NoResp EXCEPT !.op = "connect", !.sid = user,
                               !.access = service, !.refresh = anon]
        failed == "Failed to connect Supabase: "
    IN
    \E client \in {"ok", "client_error"} :
      IF client = "client_error"
        THEN Refuse(Resp(base, 500, failed, "RuntimeError"))
      ELSE
        \E iv1 \in Ivs :
          LET encS == EncryptTokenForStorage(cipherCache, secretKey, iv1, service)
              cache1 == CacheAfter(cipherCache, secretKey, encS.keyed)
          IN
          IF encS.st # "ok"
            THEN Reply(Resp(base, 500, failed, encS.err),
                       session, issuedTo, processed, exchanged, credentials, cache1)
          ELSE IF anon = <<>>
            THEN ProbeAndInsert(base, service, SupabaseRow(user, encS.v, Null), cache1)
          ELSE
            \E iv2 \in Ivs :
              LET encA == EncryptTokenForStorage(cache1, secretKey, iv2, anon)
                  cache2 == CacheAfter(cache1, secretKey, encA.keyed)
              IN
              IF encA.st # "ok"
                THEN Reply(Resp(base, 500, failed, encA.err),
                           session, issuedTo, processed, exchanged, credentials, cache2)
              ELSE ProbeAndInsert(base, service,
                                  SupabaseRow(user, encS.v, Text(encA.v)), cache2)

Init ==
  /\ cipherCache = 0
  /\ secretKey \in SecretStates
  /\ pc = "idle"
  /\ plaintext = <<>>
  /\ encrypted = NoKeyed
  /\ tamper = NoTamper
  /\ stored = NotStored
  /\ decrypted = NoKeyed
  /\ keyFetches = 0
  /\ OAuthInit
  /\ JwtQuiet

Next ==
  \/ \E s \in Sessions : GoogleLogin(s)
  \/ \E s \in Sessions : GoogleCallback(s)
  \/ \E u \in Users : ConnectSupabase(u)

Spec == Init /\ [][Next]_vars

(***************************************************************************)
(* Reading the credentials table: get_user_google_credentials of           *)
(* app/connectors/sheets.py, get_user_supabase_client and                  *)
(* test_user_supabase_connection of app/connectors/supabase.py, behind the *)
(* routes of app/api/connectors.py.  The table holds rows as the handlers  *)
(* above write them, under the key of the process that wrote them; the     *)
(* reading process may hold another key.                                   *)
(***************************************************************************)
\* the rows google_callback and store_user_supabase_connection write under
\* a key
WrittenRows(key) ==
  { GoogleRow(u, EncryptTokenForStorage(0, key, iv1, tok.access).v,
              IF tok.refresh = <<>> THEN Null
              ELSE Text(EncryptTokenForStorage(0, key, iv2, tok.refresh).v),
              tok) :
      u \in Users, iv1 \in Ivs, iv2 \in Ivs,
      tok \in {t \in ProviderTokens : t.id_token} }
  \cup
  { SupabaseRow(u, EncryptTokenForStorage(0, key, iv1, <<65>>).v,
                IF anon = <<>> THEN Null
                ELSE Text(EncryptTokenForStorage(0, key, iv2, anon).v)) :
      u \in Users, iv1 \in Ivs, iv2 \in Ivs, anon \in {<<>>, <<84>>} }

RECURSIVE WrittenTables(_, _)
\* the tables of up to n rows these inserts leave, oldest row first
WrittenTables(key, n) ==
  IF n = 0 THEN {<<>>}
  ELSE WrittenTables(key, n - 1)
         \cup {Append(t, r) : t \in WrittenTables(key, n - 1), r \in WrittenRows(key)}

\* how the API returns a stored text: "\x" and hex digits from a bytea
\* column, the text itself from a text column, or a damaged text
ReadShapes == {"xhex", "canonical", "truncated"}

\* the value a select returns for a token column
ColumnValue(f, shape) ==
  IF f.null \/ f.s = <<>> THEN <<>>
  ELSE IF shape = "xhex" THEN <<92, 120>> \o HexEncode(f.s)
  ELSE IF shape = "canonical" THEN f.s
  ELSE SubSeq(f.s, 1, 5)

\* the rows .eq("user_id", ...).eq("provider", ...) selects
MatchingRows(user, provider) ==
  {i \in 1..Len(credentials) :
     credentials[i].user_id = user /\ credentials[i].provider = provider}

\* the most recently created of them (0: none)
LatestRow(user, provider) ==
  IF MatchingRows(user, provider) = {} THEN 0
  ELSE CHOOSE i \in MatchingRows(user, provider) :
         \A j \in MatchingRows(user, provider) : j <= i

\* response.data[0] of a select without ORDER BY: the database may return
\* the rows in any order (0: no row)
FirstSelected(user, provider) ==
  IF MatchingRows(user, provider) = {} THEN {0}
  ELSE MatchingRows(user, provider)

\* .order("created_at", desc=True).limit(1)
LatestSelected(user, provider) == {LatestRow(user, provider)}

\* exceptions that are ValueError: binascii.Error is a subclass of it
IsValueError(err) == err \in {"binascii.Error", "ValueError"}

\* the outcome of a lookup: the row it took (0: none), whether it returned
\* a credential, None or raised, and the cipher cache it leaves
Lookup(st, err, row, decrypt, cache) ==
  [st |-> st, err |-> err, row |-> row, decrypt |-> decrypt, cache |-> cache]

\* get_user_google_credentials from the decrypted tokens on: a is the
\* result for access_token_encrypted, r the one for
\* refresh_token_encrypted, which is decrypted only when the column holds
\* something and the access token was decrypted, hence with the cipher that
\* first call left cached
GoogleCredentialsFrom(i, a, r, hasRefresh) ==
  LET cache1 == CacheAfter(cipherCache, secretKey, a.keyed)
      cache2 == IF hasRefresh THEN CacheAfter(cache1, secretKey, r.keyed) ELSE cache1
  IN
  IF a.st # "ok" THEN Lookup("raise", a.err, i, "failed", cache1)
  ELSE IF hasRefresh /\ r.st # "ok" THEN Lookup("raise", r.err, i, "failed", cache2)
  ELSE IF googleConfig = "no_client" THEN Lookup("raise", "RuntimeError", i, "ok", cache2)
  ELSE Lookup("ok", "", i, "ok", cache2)

\* get_user_google_credentials on the row the select put first
GetUserGoogleCredentials(user, i, shape) ==
  IF i = 0 THEN Lookup("absent", "", 0, "none", cipherCache)
  ELSE
    GoogleCredentialsFrom(
      i,
      DecryptTokenFromStorage(cipherCache, secretKey, TRUE,
                              ColumnValue(credentials[i].access_token_encrypted, shape)),
      DecryptTokenFromStorage(CacheAfter(cipherCache, secretKey, TRUE), secretKey, TRUE,
                              ColumnValue(credentials[i].refresh_token_encrypted, shape)),
      ColumnValue(credentials[i].refresh_token_encrypted, shape) # <<>>)

\* get_user_supabase_client on the row the select returned
GetUserSupabaseClient(user, i, shape, create) ==
  IF i = 0 THEN Lookup("absent", "", 0, "none", cipherCache)
  ELSE
    LET row == credentials[i]
        a == DecryptTokenFromStorage(cipherCache, secretKey, TRUE,
                                     ColumnValue(row.access_token_encrypted, shape))
        cache1 == CacheAfter(cipherCache, secretKey, a.keyed)
    IN
    IF a.st # "ok" THEN Lookup("raise", a.err, i, "failed", cache1)
    ELSE IF row.project_url = "" THEN Lookup("raise", "ValueError", i, "ok", cache1)
    ELSE IF create # "ok" THEN Lookup("raise", "SupabaseException", i, "ok", cache1)
    ELSE Lookup("ok", "", i, "ok", cache1)

\* the end of a reading request
ReadReply(base, l, status, detail, cause) ==
  Reply(Resp([base EXCEPT !.row = l.row, !.decrypt = l.decrypt], status, detail, cause),
        session, issuedTo, processed, exchanged, credentials, l.cache)

\* list_user_spreadsheets / get_spreadsheet_schema after the lookup l, as
\* the route answers it: ValueError with 401, other exceptions with 500
SheetsAnswer(base, failed, l) ==
  IF l.st = "absent"
    THEN ReadReply(base, l, 401, "Google credentials not found for user", "")
  ELSE IF l.st = "raise"
    THEN IF IsValueError(l.err)
           THEN ReadReply(base, l, 401, "", l.err)
           ELSE ReadReply(base, l, 500, failed, l.err)
  ELSE
    \E api \in {"ok", "http_401", "http_error", "error"} :
      IF api = "ok" THEN ReadReply(base, l, 200, "", "")
      ELSE IF api = "http_401"
        THEN ReadReply(base, l, 401,
               "Invalid or expired Google credentials. Please re-authenticate.", "")
      ELSE IF api = "http_error"
        THEN ReadReply(base, l, 401, "Google Drive API error: ", "HttpError")
      ELSE ReadReply(base, l, 500, failed, "Exception")

\* GET /connectors/sheets/list and GET /connectors/sheets/schema:
\* list_user_spreadsheets and get_spreadsheet_schema look the credentials up
\* and call the Google API in the same way
SheetsRoute(user) ==
  \E route \in {"sheets_list", "sheets_schema"}, client \in {"ok", "client_error"} :
    LET base == [NoResp EXCEPT !.op = route, !.sid = user]
        failed == IF route = "sheets_list" THEN "Failed to list spreadsheets: "
                  ELSE "Failed to fetch spreadsheet schema: "
    IN
    IF client = "client_error"
      THEN Refuse(Resp(base, 500, failed, "RuntimeError"))
    ELSE
      \E i \in FirstSelected(user, "google"), shape \in ReadShapes :
        SheetsAnswer(base, failed, GetUserGoogleCredentials(user, i, shape))

\* GET /connectors/supabase/test: test_user_supabase_connection turns every
\* exception into False
TestSupabase(user) ==
  \E client \in {"ok", "client_error"} :
    LET base == [NoResp EXCEPT !.op = "supabase_test", !.sid = user] IN
    IF client = "client_error"
      THEN Refuse(Resp(base, 200, "disconnected", ""))
    ELSE
      \E i \in LatestSelected(user, "supabase"), shape \in ReadShapes,
         create \in {"ok", "error"} :
        LET l == GetUserSupabaseClient(user, i, shape, create) IN
        IF l.st # "ok" THEN ReadReply(base, l, 200, "disconnected", "")
        ELSE
          \E probe \in {"ok", "relation_missing", "error"} :
            IF probe = "error" THEN ReadReply(base, l, 200, "disconnected", "")
            ELSE ReadReply(base, l, 200, "connected", "")

\* GET /connectors/supabase/list: list_user_supabase_tables raises
\* ValueError for a missing connection and for every failure of the schema
\* query, and the route answers ValueError with 404
ListSupabaseTables(user) ==
  \E client \in {"ok", "client_error"} :
    LET base == [NoResp EXCEPT !.op = "supabase_list", !.sid = user]
        failed == "Failed to list tables: "
    IN
    IF client = "client_error"
      THEN Refuse(Resp(base, 500, failed, "RuntimeError"))
    ELSE
      \E i \in LatestSelected(user, "supabase"), shape \in ReadShapes,
         create \in {"ok", "error"} :
        LET l == GetUserSupabaseClient(user, i, shape, create) IN
        IF l.st = "absent"
          THEN ReadReply(base, l, 404, "Supabase connection not found for user", "")
        ELSE IF l.st = "raise"
          THEN IF IsValueError(l.err)
                 THEN ReadReply(base, l, 404, "", l.err)
                 ELSE ReadReply(base, l, 500, failed, l.err)
        ELSE
          \E rpc \in {"ok", "error"} :
            IF rpc = "ok" THEN ReadReply(base, l, 200, "", "")
            ELSE ReadReply(base, l, 404, "Failed to fetch schema: ", "APIError")

\* a table written by an earlier process, read by this one
ReadInit ==
  /\ cipherCache = 0
  /\ secretKey \in SecretStates
  /\ pc = "idle"
  /\ plaintext = <<>>
  /\ encrypted = NoKeyed
  /\ tamper = NoTamper
  /\ stored = NotStored
  /\ decrypted = NoKeyed
  /\ keyFetches = 0
  /\ googleConfig \in {"ok", "no_client"}
  /\ session = [s \in Sessions |-> 0]
  /\ issuedTo = [k \in States |-> 0]
  /\ processed = {}
  /\ exchanged = {}
  /\ \E key \in Keys : credentials \in WrittenTables(key, MaxRows)
  /\ lastResp = NoResp
  /\ inflight = NoneInFlight
  /\ JwtQuiet

ReadNext ==
  \/ \E u \in Users : SheetsRoute(u)
  \/ \E u \in Users : TestSupabase(u)
  \/ \E u \in Users : ListSupabaseTables(u)

SpecRead == ReadInit /\ [][ReadNext]_vars

(***************************************************************************)
(* Callbacks handled side by side.  The session is the signed cookie of    *)
(* SessionMiddleware: a request reads it when it arrives, and what the     *)
(* handler leaves in request.session reaches the browser with the          *)
(* response.  Between request.session.get("oauth_state") and the end of    *)
(* google_callback the handler awaits nothing but blocks in fetch_token    *)
(* and the Supabase calls; a second worker, or a second request whose      *)
(* cookie was sent before the first response arrived, runs in between.     *)
(***************************************************************************)
\* google_callback up to the state it finds in the session
CallbackArrives(q, s) ==
  /\ inflight[q].pc = "idle"
  /\ \E rs \in 0..MaxStates :
       LET base == [NoResp EXCEPT !.op = "callback", !.sid = s, !.rstate = rs,
                                  !.pending = session[s], !.req = q,
                                  !.replay = rs \in processed,
                                  !.replayExchanged = rs \in exchanged] IN
       IF session[s] = 0
         THEN Refuse(Resp(base, 400, MissingStateDetail, ""))
       ELSE
         /\ inflight' = [inflight EXCEPT ![q] =
                           [pc |-> "read", stored_state |-> session[s], resp |-> base]]
         /\ UNCHANGED <<cipherCache, secretKey, cipherVars, jwtVars>>
         /\ UNCHANGED <<googleConfig, session, issuedTo, processed, exchanged,
                        credentials, lastResp>>

\* the rest of google_callback, with the state the request has read
CallbackProceeds(q) ==
  /\ inflight[q].pc = "read"
  /\ CallbackFrom([inflight[q].resp EXCEPT
                     !.replay = inflight[q].resp.rstate \in processed,
                     !.replayExchanged = inflight[q].resp.rstate \in exchanged],
                  inflight[q].resp.sid, inflight[q].stored_state,
                  inflight[q].resp.rstate)

\* a process that can handle its logins and has handled none
RaceInit ==
  /\ cipherCache = 0
  /\ secretKey \in SecretStates
  /\ pc = "idle"
  /\ plaintext = <<>>
  /\ encrypted = NoKeyed
  /\ tamper = NoTamper
  /\ stored = NotStored
  /\ decrypted = NoKeyed
  /\ keyFetches = 0
  /\ OAuthQuiet
  /\ JwtQuiet

RaceNext ==
  \/ \E s \in Sessions : GoogleLogin(s)
  \/ \E q \in Requests, s \in Sessions : CallbackArrives(q, s)
  \/ \E q \in Requests : CallbackProceeds(q)

SpecRace == RaceInit /\ [][RaceNext]_vars

(***************************************************************************)
(* Cipher calls: encrypt_token / decrypt_token on one token, and           *)
(* encrypt_token_for_storage / decrypt_token_from_storage through the      *)
(* credentials column.                                                     *)
(***************************************************************************)
CipherInit ==
  /\ cipherCache = 0
  /\ secretKey \in SecretStates
  /\ pc = "init"
  /\ plaintext \in Plaintexts
  /\ encrypted = NoKeyed
  /\ tamper = NoTamper
  /\ stored = NotStored
  /\ decrypted = NoKeyed
  /\ keyFetches = 0
  /\ OAuthQuiet
  /\ JwtQuiet

EncryptTokenCall ==
  /\ pc = "init"
  /\ \E iv \in Ivs :
       /\ encrypted' = EncryptToken(cipherCache, secretKey, iv, plaintext)
       /\ cipherCache' = CacheAfter(cipherCache, secretKey, encrypted'.keyed)
       /\ keyFetches' = FetchesAfter(keyFetches, cipherCache, secretKey, encrypted'.keyed)
  /\ pc' = "encrypted"
  /\ UNCHANGED <<secretKey, plaintext, tamper, stored, decrypted>>
  /\ UNCHANGED <<oauthVars, jwtVars>>

\* one byte of the token is replaced by a different byte
TamperByte ==
  /\ pc = "encrypted"
  /\ encrypted.st = "ok"
  /\ \E i \in 1..Len(encrypted.v), b \in 0..255 :
       /\ b # encrypted.v[i]
       /\ tamper' = [pos |-> i, byte |-> b]
  /\ pc' = "tampered"
  /\ UNCHANGED <<cipherCache, secretKey, plaintext, encrypted, stored, decrypted,
                 keyFetches>>
  /\ UNCHANGED <<oauthVars, jwtVars>>

DecryptTokenCall ==
  /\ pc \in {"encrypted", "tampered"}
  /\ encrypted.st = "ok"
  /\ decrypted' = DecryptToken(cipherCache, secretKey, Tampered(encrypted.v, tamper))
  /\ cipherCache' = CacheAfter(cipherCache, secretKey, decrypted'.keyed)
  /\ keyFetches' = FetchesAfter(keyFetches, cipherCache, secretKey, decrypted'.keyed)
  /\ pc' = "decrypted"
  /\ UNCHANGED <<secretKey, plaintext, encrypted, tamper, stored>>
  /\ UNCHANGED <<oauthVars, jwtVars>>

EncryptTokenForStorageCall ==
  /\ pc = "init"
  /\ \E iv \in Ivs :
       /\ encrypted' = EncryptTokenForStorage(cipherCache, secretKey, iv, plaintext)
       /\ cipherCache' = CacheAfter(cipherCache, secretKey, encrypted'.keyed)
       /\ keyFetches' = FetchesAfter(keyFetches, cipherCache, secretKey, encrypted'.keyed)
  /\ pc' = "written"
  /\ UNCHANGED <<secretKey, plaintext, tamper, stored, decrypted>>
  /\ UNCHANGED <<oauthVars, jwtVars>>

\* the credentials row is read back
ReadBack ==
  /\ pc = "written"
  /\ encrypted.st = "ok"
  /\ \E shape \in StorageShapes :
       \E data \in ReadBackValues(encrypted.v, shape) :
         stored' = [shape |-> shape, isStr |-> shape # "bytes", data |-> data]
  /\ pc' = "read"
  /\ UNCHANGED <<cipherCache, secretKey, plaintext, encrypted, tamper, decrypted,
                 keyFetches>>
  /\ UNCHANGED <<oauthVars, jwtVars>>

DecryptTokenFromStorageCall ==
  /\ pc = "read"
  /\ decrypted' =
       DecryptTokenFromStorage(cipherCache, secretKey, stored.isStr, stored.data)
  /\ cipherCache' = CacheAfter(cipherCache, secretKey, decrypted'.keyed)
  /\ keyFetches' = FetchesAfter(keyFetches, cipherCache, secretKey, decrypted'.keyed)
  /\ pc' = "decoded"
  /\ UNCHANGED <<secretKey, plaintext, encrypted, tamper, stored>>
  /\ UNCHANGED <<oauthVars, jwtVars>>

CipherNext ==
  \/ EncryptTokenCall
  \/ TamperByte
  \/ DecryptTokenCall
  \/ EncryptTokenForStorageCall
  \/ ReadBack
  \/ DecryptTokenFromStorageCall

SpecCipher == CipherInit /\ [][CipherNext]_vars

(***************************************************************************)
(* Any sequence of encrypt_token and decrypt_token calls in one process,   *)
(* with the lookups of the Secret Source counted.                          *)
(***************************************************************************)
KeyInit ==
  /\ cipherCache = 0
  /\ secretKey \in SecretStates
  /\ pc = "idle"
  /\ plaintext = <<>>
  /\ encrypted = NoKeyed
  /\ tamper = NoTamper
  /\ stored = NotStored
  /\ decrypted = NoKeyed
  /\ keyFetches = 0
  /\ OAuthQuiet
  /\ JwtQuiet

\* the next call is encrypt_token
NextEncryptToken ==
  /\ keyFetches < MaxFetches
  /\ \E p \in Plaintexts, iv \in Ivs :
       /\ plaintext' = p
       /\ encrypted' = EncryptToken(cipherCache, secretKey, iv, p)
       /\ cipherCache' = CacheAfter(cipherCache, secretKey, encrypted'.keyed)
       /\ keyFetches' = FetchesAfter(keyFetches, cipherCache, secretKey, encrypted'.keyed)
  /\ pc' = "encrypted"
  /\ UNCHANGED <<secretKey, tamper, stored, decrypted>>
  /\ UNCHANGED <<oauthVars, jwtVars>>

\* the next call is decrypt_token, of the last token or of the empty one
NextDecryptToken ==
  /\ keyFetches < MaxFetches
  /\ \E data \in {encrypted.v, <<>>, <<103>>} :
       /\ decrypted' = DecryptToken(cipherCache, secretKey, data)
       /\ cipherCache' = CacheAfter(cipherCache, secretKey, decrypted'.keyed)
       /\ keyFetches' = FetchesAfter(keyFetches, cipherCache, secretKey, decrypted'.keyed)
  /\ pc' = "decrypted"
  /\ UNCHANGED <<secretKey, plaintext, encrypted, tamper, stored>>
  /\ UNCHANGED <<oauthVars, jwtVars>>

KeyNext ==
  \/ NextEncryptToken
  \/ NextDecryptToken

SpecKey == KeyInit /\ [][KeyNext]_vars

(***************************************************************************)
(* Requests to a route behind get_current_user, and the passing of time.   *)
(***************************************************************************)
JwtInit ==
  /\ jwtSecret \in JwtSecretStates
  /\ environment \in Environments
  /\ now = 1
  /\ lastAuth = NoAuth
  /\ cipherCache = 0
  /\ secretKey = -1
  /\ pc = "idle"
  /\ plaintext = <<>>
  /\ encrypted = NoKeyed
  /\ tamper = NoTamper
  /\ stored = NotStored
  /\ decrypted = NoKeyed
  /\ keyFetches = 0
  /\ OAuthQuiet

\* a request with or without a bearer token
Authenticate ==
  /\ \E header \in Headers :
       \E token \in IF header = "bearer" THEN BearerTokens ELSE {NoCred.token} :
         lastAuth' = [header |-> header, sent |-> token,
                      cred |-> BearerScheme(header, token), at |-> now,
                      resp |-> GetCurrentUser(BearerScheme(header, token),
                                              environment, jwtSecret, now)]
  /\ UNCHANGED <<jwtSecret, environment, now, cipherCache, secretKey>>
  /\ UNCHANGED <<cipherVars, oauthVars>>

\* a second passes
Tick ==
  /\ now < MaxTime
  /\ now' = now + 1
  /\ UNCHANGED <<jwtSecret, environment, lastAuth, cipherCache, secretKey>>
  /\ UNCHANGED <<cipherVars, oauthVars>>

JwtNext ==
  \/ Authenticate
  \/ Tick

SpecJwt == JwtInit /\ [][JwtNext]_vars

(***************************************************************************)
(* Properties of the OAuth handlers and the credentials table (Spec).      *)
(***************************************************************************)
\* C1, for a state whose exchange has succeeded: once the token exchange of
\* a callback carrying the pending state S of its session has succeeded, S
\* is used up: every later callback carrying S is answered 400 with a state
\* error (the missing state message when the session holds no state, the
\* state mismatch raised inside fetch_token when it holds another one),
\* sends no token exchange, inserts nothing and leaves the session as it was.
C1_ExchangedStateNeverAccepted ==
  (lastResp.op = "callback" /\ lastResp.replayExchanged) =>
    /\ lastResp.status = 400
    /\ lastResp.exchange = "none"
    /\ ~lastResp.inserted
    /\ session[lastResp.sid] = lastResp.pending
    /\ IF lastResp.pending = 0
         THEN lastResp.detail = MissingStateDetail
         ELSE /\ lastResp.detail = ExchangeFailedDetail
              /\ lastResp.cause = "mismatching_state"

C3_UnissuedStateDistinctError ==
  (lastResp.op = "callback"
     /\ (lastResp.rstate = 0 \/ issuedTo[lastResp.rstate] # lastResp.sid))
    => /\ lastResp.status = 400
       /\ lastResp.exchange = "none"
       /\ lastResp.detail # ExchangeFailedDetail

\* C3 as amended: a callback whose state was never issued to its session is
\* answered 400 and no token exchange is sent; the error is the missing
\* state message only when the session holds no state, and otherwise the
\* exchange error whose appended text names the state mismatch; the session
\* is left as it was and nothing is inserted.
C3_UnissuedStateNeverExchanged ==
  (lastResp.op = "callback"
     /\ (lastResp.rstate = 0 \/ issuedTo[lastResp.rstate] # lastResp.sid))
    => /\ lastResp.status = 400
       /\ lastResp.exchange = "none"
       /\ ~lastResp.inserted
       /\ session[lastResp.sid] = lastResp.pending
       /\ IF lastResp.pending = 0
            THEN lastResp.detail = MissingStateDetail
            ELSE /\ lastResp.detail = ExchangeFailedDetail
                 /\ lastResp.cause = "mismatching_state"

C3_Witness ==
  /\ lastResp.op = "callback"
  /\ lastResp.rstate # 0
  /\ issuedTo[lastResp.rstate] # lastResp.sid
  /\ lastResp.pending # 0
  /\ lastResp.cause = "mismatching_state"

\* C4: every row of the credentials table holds in access_token_encrypted
\* and refresh_token_encrypted either null, the empty string, or a Fernet
\* token under the configured key that is not a plaintext secret; and the row
\* an insert has just added decrypts to the secrets of that request.
C4_OnlyCiphertextStored ==
  /\ \A i \in 1..Len(credentials) :
       \A f \in {credentials[i].access_token_encrypted,
                 credentials[i].refresh_token_encrypted} :
         \/ f.null
         \/ f.s = <<>>
         \/ /\ f.s \notin Plaintexts
            /\ \E iv \in Ivs, pt \in Plaintexts :
                 pt # <<>> /\ f.s = FernetEncrypt(secretKey, iv, pt)
  /\ lastResp.inserted =>
       LET row == credentials[Len(credentials)] IN
       /\ ~row.access_token_encrypted.null
       /\ FernetDecrypt(secretKey, row.access_token_encrypted.s) = Ok(lastResp.access)
       /\ IF lastResp.refresh = <<>>
            THEN row.refresh_token_encrypted.null
            ELSE /\ ~row.refresh_token_encrypted.null
                 /\ FernetDecrypt(secretKey, row.refresh_token_encrypted.s)
                      = Ok(lastResp.refresh)

C4_Witness ==
  /\ Len(credentials) = MaxRows
  /\ lastResp.inserted
  /\ lastResp.op = "connect"
  /\ lastResp.refresh # <<>>
  /\ credentials[1].provider = "google"
  /\ ~credentials[1].refresh_token_encrypted.null

(***************************************************************************)
(* Properties of the cipher (SpecCipher).                                  *)
(***************************************************************************)
\* C5: storage round trip: decrypt_token_from_storage applied to the string
\* encrypt_token_for_storage produced (the canonical shape, as written to
\* access_token_encrypted) returns the plaintext.
C5_StorageRoundTrip ==
  (pc = "decoded" /\ stored.shape = "canonical")
    => (decrypted.st = "ok" /\ decrypted.v = plaintext)

\* C6: decrypt_token_from_storage returns the same plaintext P for each of
\* the three stored shapes of a ciphertext of P: (a) the canonical string,
\* (b) its hex encoding with or without "\x", (c) the doubly base64-encoded
\* text with incidental white space.
C6_AllShapesDecode ==
  (pc = "decoded" /\ stored.shape \in {"canonical", "hex", "xhex", "b64ws"})
    => (decrypted.st = "ok" /\ decrypted.v = plaintext)

\* C7: decrypt_token(encrypt_token(P)) = P for every plaintext P; for the
\* empty string encrypt_token returns the empty sentinel without going
\* through _get_cipher, so it succeeds whatever the Secret Source holds and
\* no key is obtained, and decrypt_token maps the sentinel back to "".
C7_EncryptDecryptRoundTrip ==
  /\ (pc = "decrypted" /\ tamper.pos = 0)
       => (decrypted.st = "ok" /\ decrypted.v = plaintext)
  /\ (pc \in {"encrypted", "decrypted"} /\ plaintext = <<>>)
       => (encrypted = Keyed(Ok(<<>>), FALSE) /\ cipherCache = 0)
  /\ (pc = "decrypted" /\ encrypted.v = <<>>)
       => decrypted = Keyed(Ok(<<>>), FALSE)

C7_Witness ==
  /\ pc = "decrypted"
  /\ tamper.pos = 0
  /\ plaintext # <<>>
  /\ encrypted.v # plaintext
  /\ decrypted.v = plaintext

\* C8 as stated: decrypt_token of a token with one byte changed always fails.
C8_TamperAlwaysRejected ==
  (pc = "decrypted" /\ tamper.pos # 0) => decrypted.st = "err"

\* C8 as amended: decrypt_token of a token with one byte changed never
\* returns a plaintext other than the original; it fails with InvalidToken
\* whenever the changed text base64-decodes to other bytes than the token,
\* and returns the original plaintext when it decodes to the same bytes.
C8_TamperNeverForges ==
  (pc = "decrypted" /\ tamper.pos # 0) =>
    IF UrlsafeB64Decode(Tampered(encrypted.v, tamper)) = UrlsafeB64Decode(encrypted.v)
    THEN decrypted.st = "ok" /\ decrypted.v = plaintext
    ELSE decrypted.st = "err" /\ decrypted.err = "InvalidToken"

C8_Witness ==
  /\ pc = "decrypted"
  /\ tamper.pos # 0
  /\ decrypted.st = "err"
  /\ decrypted.err = "InvalidToken"

(***************************************************************************)
(* Properties of bearer authentication (SpecJwt).                          *)
(***************************************************************************)
\* C9 as stated: wrong-signature, expired and malformed tokens are three
\* distinct failures, each answered 401 with the reason in a machine-readable
\* part of the response: two failures of different kinds differ in the
\* status or the headers, not only in the message.
C9_ReasonInMachineReadableField ==
  LET three == {"InvalidSignatureError", "ExpiredSignatureError", "DecodeError"}
      r == lastAuth.resp
  IN
  (lastAuth.cred.present /\ r.exc \in three) =>
    /\ r.status = 401
    /\ \A c \in Creds :
         LET r2 == GetCurrentUser(c, environment, jwtSecret, lastAuth.at) IN
         (c.present /\ r2.exc \in three /\ r2.exc # r.exc)
           => <<r2.status, r2.header>> # <<r.status, r.header>>

\* C9 as amended: with the JWT secret configured, a token signed with
\* another key fails as an invalid signature (whatever its exp), an expired
\* token with a good signature as expired, and a token without three
\* segments as malformed; each is answered 401 with the same
\* WWW-Authenticate header and a detail made of the fixed text "Invalid
\* authentication credentials: " followed by the message of the exception,
\* which differs between failures of different kinds.
C9_ReasonInDetailText ==
  LET three == {"InvalidSignatureError", "ExpiredSignatureError", "DecodeError"}
      r == lastAuth.resp
      tk == lastAuth.cred.token
      signed == tk.form = "jws" /\ tk.alg = "HS256"
  IN
  (lastAuth.cred.present /\ jwtSecret # 0) =>
    /\ tk.form = "malformed" => r.exc = "DecodeError"
    /\ (signed /\ tk.key # jwtSecret) => r.exc = "InvalidSignatureError"
    /\ (signed /\ tk.key = jwtSecret /\ tk.has_exp /\ tk.exp < lastAuth.at)
         => r.exc = "ExpiredSignatureError"
    /\ r.exc \in three =>
         /\ r.status = 401
         /\ r.header = WwwAuthenticate
         /\ r.detail = InvalidCredentialsDetail
         /\ r.cause = JwtMessage(r.exc)
         /\ \A c \in Creds :
              LET r2 == GetCurrentUser(c, environment, jwtSecret, lastAuth.at) IN
              (c.present /\ r2.exc \in three /\ r2.exc # r.exc)
                => /\ r2.cause # r.cause
                   /\ r2.status = r.status
                   /\ r2.header = r.header
                   /\ r2.detail = r.detail

C9_Witness ==
  /\ lastAuth.cred.present
  /\ jwtSecret # 0
  /\ lastAuth.cred.token.form = "jws"
  /\ lastAuth.cred.token.alg = "HS256"
  /\ lastAuth.cred.token.key # jwtSecret
  /\ lastAuth.cred.token.has_exp
  /\ lastAuth.cred.token.exp < lastAuth.at
  /\ lastAuth.resp.status = 401
  /\ lastAuth.resp.exc = "InvalidSignatureError"

\* C10: for a token signed with the configured secret and carrying the
\* expected audience, validation at time now fails as expired when
\* exp = now - 1 and succeeds, handing the sub claim to the route, when
\* exp = now + 1.
C10_StrictExpiry ==
  LET r == lastAuth.resp
      tk == lastAuth.cred.token
  IN
  (lastAuth.cred.present /\ jwtSecret # 0 /\ tk.form = "jws" /\ tk.alg = "HS256"
     /\ tk.key = jwtSecret /\ tk.aud = "authenticated" /\ tk.has_exp) =>
    /\ tk.exp = lastAuth.at - 1 =>
         (r.status = 401 /\ r.exc = "ExpiredSignatureError")
    /\ tk.exp = lastAuth.at + 1 =>
         (r.status = 200 /\ r.exc = "" /\ r.user.user_id = tk.sub)

C10_Witness ==
  /\ lastAuth.cred.present
  /\ jwtSecret # 0
  /\ lastAuth.cred.token.form = "jws"
  /\ lastAuth.cred.token.alg = "HS256"
  /\ lastAuth.cred.token.key = jwtSecret
  /\ lastAuth.cred.token.aud = "authenticated"
  /\ lastAuth.cred.token.has_exp
  /\ lastAuth.at = MaxTime
  /\ lastAuth.cred.token.exp = lastAuth.at - 1
  /\ lastAuth.resp.exc = "ExpiredSignatureError"

\* C11: a correctly signed token that lacks exp, lacks sub, lacks aud or
\* carries another aud than "authenticated" is rejected with 401 and hands
\* no identity to the route.
C11_RequiredClaimsEnforced ==
  LET r == lastAuth.resp
      tk == lastAuth.cred.token
  IN
  (lastAuth.cred.present /\ jwtSecret # 0 /\ tk.form = "jws" /\ tk.alg = "HS256"
     /\ tk.key = jwtSecret
     /\ (~tk.has_exp \/ tk.sub = "absent" \/ tk.aud # "authenticated"))
    => (r.status = 401 /\ r.user = NoUser)

\* C12: the treatment of a request without a bearer token is set by one
\* explicitly configured mode, never by a default: it is rejected with 401
\* where ENVIRONMENT names production, and gets the fixed test identity only
\* where ENVIRONMENT names development.
C12_ExplicitAuthMode ==
  LET r == lastAuth.resp IN
  (lastAuth.at # 0 /\ ~lastAuth.cred.present) =>
    \/ /\ environment = "production"
       /\ r.status = 401
       /\ r.user = NoUser
    \/ /\ environment = "development"
       /\ r.status = 200
       /\ r.user.user_id = "00000000-0000-0000-0000-000000000000"

\* C13: the row a Google callback stores has a non-empty
\* access_token_encrypted, a null refresh_token_encrypted exactly when the
\* provider returned no refresh token, and as scopes the set the provider
\* granted, also when that is fewer than the requested SCOPES.
C13_StoredRowFields ==
  (lastResp.op = "callback" /\ lastResp.inserted) =>
    LET row == credentials[Len(credentials)] IN
    /\ lastResp.status = 200
    /\ lastResp.exchange = "ok"
    /\ row.provider = "google"
    /\ ~row.access_token_encrypted.null
    /\ row.access_token_encrypted.s # <<>>
    /\ row.refresh_token_encrypted.null <=> lastResp.refresh = <<>>
    /\ ~row.refresh_token_encrypted.null => row.refresh_token_encrypted.s # <<>>
    /\ row.scopes = lastResp.granted

C13_Witness ==
  /\ lastResp.op = "callback"
  /\ lastResp.inserted
  /\ lastResp.refresh = <<>>
  /\ lastResp.granted # SCOPES
  /\ credentials[Len(credentials)].scopes = lastResp.granted
  /\ credentials[Len(credentials)].refresh_token_encrypted.null

\* C14 as stated: a callback never reports success while no credential row
\* was stored.
C14_StorageFailureSurfaced ==
  (lastResp.op = "callback" /\ lastResp.status = 200) => lastResp.inserted

\* C14 as amended: a callback whose exchange succeeded and whose insert
\* failed answers 200 "authenticated" like one whose row was stored, leaves
\* the table as it was and has consumed the state; the failure is printed
\* only.
C14_StorageFailureSwallowed ==
  [][(lastResp'.op = "callback" /\ lastResp'.insertFailed)
       => /\ lastResp'.exchange = "ok"
          /\ ~lastResp'.inserted
          /\ lastResp'.status = 200
          /\ lastResp'.detail = "authenticated"
          /\ credentials' = credentials
          /\ session'[lastResp'.sid] = 0]_vars

C14_Witness ==
  /\ lastResp.op = "callback"
  /\ lastResp.insertFailed
  /\ lastResp.exchange = "ok"
  /\ lastResp.status = 200
  /\ lastResp.detail = "authenticated"
  /\ ~lastResp.inserted
  /\ credentials = <<>>

(***************************************************************************)
(* C15: when the stored credential of a user cannot be decrypted, every    *)
(* reader (sheets listing and schema, Supabase table listing, connection   *)
(* test) answers with a 500-class status, never with what it answers when  *)
(* no credential is stored.  Checked under SpecRead.                       *)
(***************************************************************************)
C15_UndecryptableIsServerError ==
  (lastResp.op \in {"sheets_list", "sheets_schema", "supabase_test", "supabase_list"}
     /\ lastResp.decrypt = "failed")
    => lastResp.status >= 500

(***************************************************************************)
(* C16: a credential lookup for a (user, provider) pair takes the most     *)
(* recently created row of that pair, for google and for supabase.         *)
(* Checked under SpecRead.                                                 *)
(***************************************************************************)
C16_LookupTakesLatestRow ==
  (lastResp.op \in {"sheets_list", "sheets_schema", "supabase_test", "supabase_list"}
     /\ lastResp.row # 0)
    => lastResp.row =
         LatestRow(lastResp.sid,
                   IF lastResp.op \in {"sheets_list", "sheets_schema"}
                     THEN "google" ELSE "supabase")

(***************************************************************************)
(* C17: every successful login replaces the pending state of the caller's  *)
(* session by the state it has just issued, so a session holds one pending *)
(* state, that of its most recent login; the state is kept in that session *)
(* only, and no other session's pending state changes.  Checked under      *)
(* Spec.                                                                   *)
(***************************************************************************)
C17_LoginReplacesPendingState ==
  [][(lastResp'.op = "login" /\ lastResp'.status = 302)
       => /\ lastResp'.rstate \in States
          /\ issuedTo[lastResp'.rstate] = 0
          /\ lastResp'.pending = session[lastResp'.sid]
          /\ session'[lastResp'.sid] = lastResp'.rstate
          /\ \A t \in Sessions \ {lastResp'.sid} : session'[t] = session[t]]_vars

\* a login that replaced an earlier pending state of the same session
C17_Witness ==
  /\ lastResp.op = "login"
  /\ lastResp.status = 302
  /\ lastResp.pending # 0
  /\ lastResp.rstate # lastResp.pending
  /\ session[lastResp.sid] = lastResp.rstate

(***************************************************************************)
(* C18: decrypt_token_from_storage falls through from one decoding to the  *)
(* next until one yields a token that decrypts: whenever the stored string *)
(* read as hex, as hex then base64, as base64 with white space removed, or *)
(* as the token text itself is a valid ciphertext, the call succeeds with  *)
(* the plaintext of that ciphertext.  Checked under SpecCipher.            *)
(***************************************************************************)
C18_AnySupportedDecodingSucceeds ==
  LET body == IF HasHexPrefix(stored.data)
                THEN SubSeq(stored.data, 3, Len(stored.data)) ELSE stored.data
      hex == FromHex(body)
      hexB64 == IF hex.st = "ok" THEN B64Decode(hex.v) ELSE hex
      b64 == LastResortBytes(body)
      decodings ==
        {d.v : d \in {d \in {hex, hexB64, b64} : d.st = "ok"}} \cup {stored.data}
      plain == {DecryptToken(cipherCache, secretKey, c).v :
                  c \in {c \in decodings :
                           DecryptToken(cipherCache, secretKey, c).st = "ok"}}
  IN
  (pc = "decoded" /\ stored.isStr /\ stored.data # <<>> /\ plain # {})
    => (decrypted.st = "ok" /\ decrypted.v \in plain)

(***************************************************************************)
(* C19: of two callback requests of the same session that carry the same   *)
(* state and both find it pending in the session, at most one reaches the  *)
(* token exchange, whatever the order of their steps; the other fails with *)
(* a state error.  Checked under SpecRace.                                 *)
(***************************************************************************)
C19_StateConsumedOnce ==
  \A q1, q2 \in Requests :
    LET r1 == inflight[q1].resp
        r2 == inflight[q2].resp
    IN
    (q1 # q2 /\ inflight[q1].pc = "done" /\ inflight[q2].pc = "done"
       /\ r1.sid = r2.sid /\ r1.rstate = r2.rstate /\ r1.rstate # 0
       /\ r1.pending = r1.rstate /\ r2.pending = r2.rstate)
      => (r1.exchange = "none" \/ r2.exchange = "none")

(***************************************************************************)
(* C20: when a session has logged in twice, the later state is the pending *)
(* one.  A callback of that session carrying the earlier state is answered *)
(* 400 with a state error: it sends no token exchange, stores nothing and  *)
(* leaves the pending state as it was, so the earlier attempt can never    *)
(* complete; a callback carrying the later, pending state is not stopped   *)
(* by the state check.  Checked under Spec.                                *)
(***************************************************************************)
C20_LastLoginWins ==
  LET r == lastResp
      laterIssued == \E j \in States : j > r.rstate /\ issuedTo[j] = r.sid
      earlierIssued == \E j \in States : j < r.rstate /\ issuedTo[j] = r.sid
  IN
  /\ (r.op = "callback" /\ r.rstate \in States /\ issuedTo[r.rstate] = r.sid
        /\ laterIssued)
       => /\ r.status = 400
          /\ r.exchange = "none"
          /\ ~r.inserted
          /\ session[r.sid] = r.pending
          /\ r.pending # r.rstate
          /\ IF r.pending = 0
               THEN r.detail = MissingStateDetail
               ELSE /\ r.detail = ExchangeFailedDetail
                    /\ r.cause = "mismatching_state"
  /\ (r.op = "callback" /\ r.rstate \in States /\ issuedTo[r.rstate] = r.sid
        /\ earlierIssued /\ r.pending = r.rstate)
       => /\ r.cause # "mismatching_state"
          /\ r.detail # MissingStateDetail
  /\ (r.op = "login" /\ r.status = 302 /\ r.pending # 0)
       => (session[r.sid] = r.rstate /\ r.rstate > r.pending)

\* two logins of one session, then a callback with the earlier state, which
\* no callback had presented before
C20_Witness ==
  /\ lastResp.op = "callback"
  /\ lastResp.rstate = 1
  /\ lastResp.pending = 2
  /\ issuedTo[1] = lastResp.sid
  /\ issuedTo[2] = lastResp.sid
  /\ processed = {}
  /\ lastResp.status = 400
  /\ lastResp.cause = "mismatching_state"
  /\ session[lastResp.sid] = 2

(***************************************************************************)
(* C21: a login or callback request of one session neither reads nor       *)
(* changes the pending state of another session: the step leaves every     *)
(* other session's oauth_state as it was, and what the request does with   *)
(* the state (missing state, state mismatch, or going on to the exchange)  *)
(* is decided by its own session's oauth_state and its own state parameter *)
(* alone.  Checked under Spec.                                             *)
(***************************************************************************)
C21_SessionsDoNotInterfere ==
  [][(lastResp'.op \in {"login", "callback"})
       => LET r == lastResp'
              own == session[r.sid]
          IN
          /\ \A t \in Sessions \ {r.sid} : session'[t] = session[t]
          /\ r.pending = own
          /\ session'[r.sid] \in {own, 0, r.rstate}
          /\ (r.op = "callback" /\ own = 0)
               => (r.status = 400 /\ r.detail = MissingStateDetail)
          /\ (r.op = "callback" /\ own # 0 /\ googleConfig = "ok")
               => /\ r.detail # MissingStateDetail
                  /\ (r.cause = "mismatching_state") <=> (r.rstate # own)
                  /\ (r.exchange # "none") => (r.rstate = own)]_vars

\* a callback of one session completes while the other session has a state
\* pending, which is still pending afterwards
C21_Witness ==
  /\ lastResp.op = "callback"
  /\ lastResp.status = 200
  /\ session[lastResp.sid] = 0
  /\ \E t \in Sessions \ {lastResp.sid} :
       /\ session[t] # 0
       /\ issuedTo[session[t]] = t

(***************************************************************************)
(* C22: over any sequence of encrypt and decrypt calls in one process the  *)
(* encryption key is looked up in the Secret Source at most once, also     *)
(* when the first lookup failed.  Checked under SpecKey.                   *)
(***************************************************************************)
C22_KeyFetchedAtMostOnce == keyFetches <= 1

(***************************************************************************)
(* C23: the credentials table is append-only.  No request removes or       *)
(* changes a row; the table changes only by a store that succeeds (the     *)
(* Google callback, store_user_supabase_connection), which adds exactly    *)
(* one row, for the user and provider of that request, after the rows      *)
(* that were there.  Checked under Spec.                                   *)
(***************************************************************************)
C23_AppendOnly ==
  [][/\ Len(credentials') >= Len(credentials)
     /\ SubSeq(credentials', 1, Len(credentials)) = credentials
     /\ (credentials' # credentials) <=> lastResp'.inserted
     /\ lastResp'.inserted
          => /\ Len(credentials') = Len(credentials) + 1
             /\ lastResp'.op \in {"callback", "connect"}
             /\ lastResp'.status = 200
             /\ credentials'[Len(credentials')].provider =
                  (IF lastResp'.op = "callback" THEN "google" ELSE "supabase")
             /\ credentials'[Len(credentials')].user_id \in Users
             /\ lastResp'.op = "connect"
                  => credentials'[Len(credentials')].user_id = lastResp'.sid]_vars

\* a second row stored for a user and provider that already had one, the
\* first still in its place
C23_Witness ==
  /\ Len(credentials) = 2
  /\ lastResp.inserted
  /\ credentials[1].user_id = credentials[2].user_id
  /\ credentials[1].provider = credentials[2].provider
  /\ credentials[1] # credentials[2]

(***************************************************************************)
(* C24 as stated: a request whose bearer token fails validation is         *)
(* answered 401 and never gets the fallback identity, whatever ENVIRONMENT *)
(* holds; the fixed test identity is returned only to a request without    *)
(* any Authorization header, outside production.  Checked under SpecJwt.   *)
(***************************************************************************)
C24_InvalidTokenAlways401 ==
  LET r == lastAuth.resp IN
  /\ (lastAuth.at # 0 /\ lastAuth.header = "bearer"
        /\ ValidateJwtToken(jwtSecret, lastAuth.sent, lastAuth.at).st # "ok")
       => (r.status = 401 /\ r.user = NoUser)
  /\ (lastAuth.at # 0 /\ r.user.user_id = "00000000-0000-0000-0000-000000000000")
       => (lastAuth.header = "none" /\ GetEnvironment(environment) # "production")

(***************************************************************************)
(* C24 as amended: a request whose bearer token fails validation is never  *)
(* given an identity: it is answered 401 when the JWT secret is            *)
(* configured and 500 when it is not, whatever ENVIRONMENT holds; the      *)
(* fixed test identity is returned only when the bearer scheme found no    *)
(* token (no Authorization header, one of another scheme, or Bearer        *)
(* without a token) and ENVIRONMENT is not production.                     *)
(***************************************************************************)
C24_InvalidTokenNeverFallsBack ==
  LET r == lastAuth.resp IN
  /\ (lastAuth.at # 0 /\ lastAuth.header = "bearer"
        /\ ValidateJwtToken(jwtSecret, lastAuth.sent, lastAuth.at).st # "ok")
       => /\ r.user = NoUser
          /\ r.status = IF jwtSecret = 0 THEN 500 ELSE 401
  /\ (lastAuth.at # 0 /\ r.user.user_id = "00000000-0000-0000-0000-000000000000")
       => /\ lastAuth.header # "bearer"
          /\ GetEnvironment(environment) # "production"
          /\ r.status = 200

\* a token signed with another key, sent where the fallback is enabled, is
\* answered 401
C24_Witness ==
  /\ lastAuth.at # 0
  /\ lastAuth.header = "bearer"
  /\ lastAuth.sent.form = "jws"
  /\ lastAuth.sent.alg = "HS256"
  /\ lastAuth.sent.key # jwtSecret
  /\ jwtSecret # 0
  /\ environment = "development"
  /\ lastAuth.resp.status = 401
  /\ lastAuth.resp.user = NoUser

(***************************************************************************)
(* C25: store_user_supabase_connection inserts a credentials row only      *)
(* after the connectivity probe succeeded or failed only with "relation    *)
(* ... does not exist", and the row it inserts is the one new last row;    *)
(* whenever the probe fails for any other reason the call raises (the      *)
(* route answers 500 with the probe's message) and the credentials table   *)
(* is left unchanged.                                                      *)
(***************************************************************************)
C25_InsertOnlyAfterProbe ==
  [][ lastResp'.op = "connect" =>
        /\ (credentials' # credentials \/ lastResp'.inserted)
             => /\ lastResp'.probe \in {"ok", "relation_missing"}
                /\ Len(credentials') = Len(credentials) + 1
                /\ SubSeq(credentials', 1, Len(credentials)) = credentials
                /\ credentials'[Len(credentials')].provider = "supabase"
        /\ lastResp'.probe = "error"
             => /\ credentials' = credentials
                /\ ~lastResp'.inserted
                /\ lastResp'.status = 500
                /\ lastResp'.cause = "Failed to connect to Supabase project: "
    ]_vars

\* a connect request whose probe failed was answered 500 while the table
\* holds the row of an earlier connect request whose probe found the
\* relation missing
C25_Witness ==
  /\ lastResp.op = "connect"
  /\ lastResp.probe = "error"
  /\ lastResp.access # <<>>
  /\ lastResp.status = 500
  /\ \E i \in 1..Len(credentials) : credentials[i].provider = "supabase"

====
